---------------------------- MODULE Spec2Model ----------------------------
(***************************************************************************)
(* Model of streamlit_app.py (Euro 2024 StatsBomb dashboard): the cached   *)
(* loaders, the coordinate normalisation of main and of                    *)
(* load_full_competition_events, the progression filters, and the          *)
(* percentile ranking of the four report cards.                            *)
(*                                                                         *)
(* Conventions.  A table (DataFrame) is a sequence of rows (records).  A   *)
(* cell of a coordinate column is a pair <<tag, v>>: <<"num", n>> is the   *)
(* number n, <<"nan", 0>> is pandas' missing value, <<"str", 0>> is a      *)
(* non-numeric object.  A percentile is a rational num/den or NaN.         *)
(***************************************************************************)
EXTENDS Integers, Sequences, FiniteSets, TLC

VARIABLES
    counts_df,        \* percentile fragment: the population's per-player counts
    selected_count,   \* percentile fragment: the selected player's raw count
    perc,             \* percentile fragment: card |-> percentile, <<>> before the row is built
    raw,              \* the raw event table the upstream source returned
    norm,             \* the outcome of a coordinate normalisation of raw
    prog,             \* the outcome of a progression view on the normalised table
    report,           \* the outcome of a report card view
    sb_matches,       \* the matches table the upstream source returns
    cache,            \* st.cache_data's store: key |-> the memoized table
    pc,               \* where the current render pass (one run of main) stands
    locals,           \* main's local variables in the current pass
    out,              \* what the last pass showed: a view, an error or an exception
    last_load,        \* the last call of load_events_for_matches: arguments and outcome
    hist,             \* per argument tuple: body runs, completed runs, first return; failed calls
    next_id,          \* identity of the next table object handed to main
    passes            \* render passes started

\* the variables of the render pass
renderVars == <<sb_matches, cache, pc, locals, out, last_load, hist, next_id, passes>>

vars == <<counts_df, selected_count, perc, raw, norm, prog, report, renderVars>>

---------------------------------------------------------------------------
(* Bounds of the model *)
MaxPop == 5       \* largest population (players with a count) drawn
MaxCount == 5     \* largest per-player count drawn
MaxRows == 3      \* largest well-formed raw event table drawn for the normaliser and the filters
MaxBadRows == 2   \* largest raw event table drawn that may hold malformed location fields
MaxCardRows == 3  \* largest tournament event table drawn for the report cards
MaxMainRows == 2  \* largest tournament event table drawn for the render passes
MaxPasses == 2    \* render passes (user interactions) in one process
MaxNetRows == 7   \* largest event table drawn for the passing network
MaxViewRows == 3  \* largest event table drawn for the views
MaxPairRows == 3  \* largest table drawn of passes between two players

---------------------------------------------------------------------------
\* the value of an output that no step has produced yet
NotRun == [status |-> "not run"]

\* main's locals outside a render pass
NoLocals == [team |-> "None"]

\* the process before its first render pass: nothing memoized
FreshProcess ==
    /\ cache = <<>>
    /\ pc = "idle"
    /\ locals = NoLocals
    /\ out = NotRun
    /\ last_load = NotRun
    /\ hist = [runs |-> <<>>, done |-> <<>>, first |-> <<>>, failed |-> {}]
    /\ next_id = 1
    /\ passes = 0

\* the render pass left out of a specification of one function
NoRender == sb_matches = <<>> /\ FreshProcess

---------------------------------------------------------------------------
(* Cells, raw location fields and raw events *)

Num(n) == <<"num", n>>
NaN == <<"nan", 0>>
Str == <<"str", 0>>

\* a raw location field: missing, a Python list, or an object that is no list
Absent == [kind |-> "nan", elems |-> <<>>]
List(s) == [kind |-> "list", elems |-> s]
NonList == [kind |-> "str", elems |-> <<>>]

\* the player of an event without one (NaN), and a missing outcome
NoPlayer == 0
NoOutcome == "nan"

\* the position of an event that has none (NaN)
NoPosition == "nan"

\* one raw event as the upstream source returns it
Event(m, t, p, pos, ty, loc, pend, cend, pout) ==
    [match_id |-> m, team |-> t, player |-> p, position |-> pos, type |-> ty,
     location |-> loc, pass_end_location |-> pend,
     carry_end_location |-> cend, pass_outcome |-> pout,
     pass_recipient |-> NoPlayer,
     shot_outcome |-> NoOutcome, shot_type |-> "nan"]

\* a shot event with its outcome
Shot(m, t, p, pos, loc, sout) ==
    [Event(m, t, p, pos, "Shot", loc, Absent, Absent, NoOutcome)
        EXCEPT !.shot_outcome = sout]

\* a location field that holds two numbers
Pair(a, b) == List(<<Num(a), Num(b)>>)

\* an event that only its player, position and type tell apart
Plain(m, t, p, pos, ty) ==
    Event(m, t, p, pos, ty, Pair(50, 40), Absent, Absent, NoOutcome)

---------------------------------------------------------------------------
(* Coordinate normalisation *)

Max2(a, b) == IF a >= b THEN a ELSE b

\* main's lambda with the missing pair replaced by zeros
main_series_zero(loc) ==
    IF loc.kind = "list" THEN loc.elems ELSE <<Num(0), Num(0)>>

\* pd.Series(loc if isinstance(loc, list) else [None, None])
main_series(loc) ==
    IF loc.kind = "list" THEN loc.elems ELSE <<NaN, NaN>>

\* pd.Series(loc): a list gives its elements, a scalar a one-element Series
full_series(loc) ==
    CASE loc.kind = "list" -> loc.elems
      [] loc.kind = "nan"  -> <<NaN>>
      [] loc.kind = "str"  -> <<Str>>

\* Series.apply with a Series-valued function builds a DataFrame whose
\* columns are 0..(longest Series - 1); a shorter row is padded with NaN.
RECURSIVE width(_)
width(series) ==
    IF series = <<>> THEN 0
    ELSE Max2(Len(Head(series)), width(Tail(series)))

cell(s, j) == IF j <= Len(s) THEN s[j] ELSE NaN

\* lines 138-146 of main: events[['x','y']] = ...apply(...), for the three
\* location fields.  Assigning a frame that has not exactly two columns to
\* the two keys raises ValueError ("Columns must be same length as key").
main_normalize(events) ==
    LET n == Len(events)
        loc == [i \in 1..n |-> main_series(events[i].location)]
        pend == [i \in 1..n |-> main_series(events[i].pass_end_location)]
        cend == [i \in 1..n |-> main_series(events[i].carry_end_location)]
    IN IF width(loc) # 2 \/ width(pend) # 2 \/ width(cend) # 2
       THEN [status |-> "ValueError", path |-> "main"]
       ELSE [status |-> "ok", path |-> "main",
             rows |-> [i \in 1..n |->
                 events[i] @@
                 [x |-> cell(loc[i], 1), y |-> cell(loc[i], 2),
                  pass_end_x |-> cell(pend[i], 1), pass_end_y |-> cell(pend[i], 2),
                  carry_end_x |-> cell(cend[i], 1), carry_end_y |-> cell(cend[i], 2)]]]

\* lines 64-68 of load_full_competition_events: apply(pd.Series), rename of
\* columns 0 and 1, concat.  Nothing raises; ncols records how many columns
\* each field produced (a column beyond the second keeps its number as name,
\* and with fewer than two the y, or the x, column does not exist).
full_normalize(comp_events) ==
    LET n == Len(comp_events)
        coords == [i \in 1..n |-> full_series(comp_events[i].location)]
        pass_end_coords == [i \in 1..n |-> full_series(comp_events[i].pass_end_location)]
        carry_end_coords == [i \in 1..n |-> full_series(comp_events[i].carry_end_location)]
    IN [status |-> "ok", path |-> "full",
        ncols |-> [location |-> width(coords),
                   pass_end_location |-> width(pass_end_coords),
                   carry_end_location |-> width(carry_end_coords)],
        rows |-> [i \in 1..n |->
            comp_events[i] @@
            [x |-> cell(coords[i], 1), y |-> cell(coords[i], 2),
             pass_end_x |-> cell(pass_end_coords[i], 1),
             pass_end_y |-> cell(pass_end_coords[i], 2),
             carry_end_x |-> cell(carry_end_coords[i], 1),
             carry_end_y |-> cell(carry_end_coords[i], 2)]]]

\* the columns one location field gives after rename(columns={0: xname,
\* 1: yname}): column 0 and column 1 take the names when they exist, a later
\* column keeps its number as name
renamed_columns(ncol, xname, yname) ==
    (IF ncol >= 1 THEN {xname} ELSE {})
    \cup (IF ncol >= 2 THEN {yname} ELSE {})
    \cup {ToString(j) : j \in 2..(ncol - 1)}

\* the coordinate columns of a normalised table: main assigns to the six
\* keys (lines 138-146), the tournament loader concatenates whatever columns
\* apply(pd.Series) produced (lines 64-67)
coordinate_columns(n) ==
    IF n.path = "main"
    THEN {"x", "y", "pass_end_x", "pass_end_y", "carry_end_x", "carry_end_y"}
    ELSE renamed_columns(n.ncols.location, "x", "y")
         \cup renamed_columns(n.ncols.pass_end_location, "pass_end_x", "pass_end_y")
         \cup renamed_columns(n.ncols.carry_end_location, "carry_end_x", "carry_end_y")

\* a table built from event records has a column exactly when some record
\* has the field: 'position' is among events.columns unless no row has one
has_position_column(events) ==
    \E i \in 1..Len(events) : events[i].position # NoPosition

\* lines 148-150 of main: the column is added, filled with "N/A", only when
\* the table has no position column at all
fill_position(events) ==
    IF has_position_column(events) THEN events
    ELSE [i \in 1..Len(events) |-> [events[i] EXCEPT !.position = "N/A"]]

\* lines 137-150 of main: the normalisation of the match-filtered table
main_prepare(events) ==
    LET n == main_normalize(events)
    IN IF n.status = "ok" THEN [n EXCEPT !.rows = fill_position(@)] ELSE n

---------------------------------------------------------------------------
(* The upstream source and the bodies of the loaders *)

\* sb.matches(competition_id=55, season_id=282): team A plays both matches
EuroMatches ==
    <<[match_id |-> 1, home_team |-> "A", away_team |-> "B"],
      [match_id |-> 2, home_team |-> "A", away_team |-> "C"]>>

\* sb.events(match_id=m): the events of match m, in the order of the source
sb_events(m) == SelectSeq(raw, LAMBDA r : r.match_id = m)

\* sb.competition_events(...): every event of the tournament
sb_competition_events == raw

\* lines 44-52: the body of load_events_for_matches when every fetch succeeds
RECURSIVE load_events_body(_)
load_events_body(match_ids) ==
    IF match_ids = <<>> THEN <<>>
    ELSE sb_events(Head(match_ids)) \o load_events_body(Tail(match_ids))

\* lines 81-82 of main: the teams of the matches table
all_teams(matches) ==
    {matches[i].home_team : i \in 1..Len(matches)}
        \cup {matches[i].away_team : i \in 1..Len(matches)}

\* lines 89 and 108 of main: the match ids of the team's matches, in table order
RECURSIVE match_ids_of(_, _)
match_ids_of(matches, team) ==
    IF matches = <<>> THEN <<>>
    ELSE (IF Head(matches).home_team = team \/ Head(matches).away_team = team
          THEN <<Head(matches).match_id>> ELSE <<>>)
         \o match_ids_of(Tail(matches), team)

\* what st.sidebar.multiselect can return: the options picked, each once
Selections(options) ==
    LET S == {options[i] : i \in 1..Len(options)}
    IN {sel \in UNION {[1..n -> S] : n \in 0..Cardinality(S)} :
          \A i, j \in 1..Len(sel) : i # j => sel[i] # sel[j]}

\* lines 117-121 of main: no selection means every match of the team
selected_match_ids(selection, team_match_ids) ==
    IF selection = <<>> THEN team_match_ids ELSE selection

---------------------------------------------------------------------------
(* Progression filters and the per-player count aggregation *)

\* x = 80 marks the start of the final third
FinalThird == 80

\* a comparison of a cell with a number: False on a missing value
lt(c, k) == c[1] = "num" /\ c[2] < k
gt(c, k) == c[1] = "num" /\ c[2] > k
le(c, k) == c[1] = "num" /\ c[2] <= k

\* comparing an object column that holds a non-numeric value with a number
\* raises TypeError for the whole column
compare_raises(events, col) ==
    \E i \in 1..Len(events) : events[i][col][1] = "str"

\* the pass filter with x <= 80 for x < 80
is_f3rd_pass_le(r, team) ==
    /\ r.team = team
    /\ r.type = "Pass"
    /\ le(r.x, FinalThird)
    /\ gt(r.pass_end_x, FinalThird)
    /\ r.pass_outcome = NoOutcome

\* lines 293-299 (also 160-166, 356-361): the row mask of the pass filter
is_f3rd_pass(r, team) ==
    /\ r.team = team
    /\ r.type = "Pass"
    /\ lt(r.x, FinalThird)
    /\ gt(r.pass_end_x, FinalThird)
    /\ r.pass_outcome = NoOutcome

\* lines 301-306 (also 167-172, 364-369): the row mask of the carry filter
is_f3rd_carry(r, team) ==
    /\ r.team = team
    /\ r.type = "Carry"
    /\ lt(r.x, FinalThird)
    /\ gt(r.carry_end_x, FinalThird)

f3rd_pass_events(events, team) ==
    SelectSeq(events, LAMBDA r : is_f3rd_pass(r, team))

f3rd_carry_events(events, team) ==
    SelectSeq(events, LAMBDA r : is_f3rd_carry(r, team))

\* the players of a table in ascending order, a missing player dropped
RECURSIVE ascending(_)
ascending(S) ==
    IF S = {} THEN <<>>
    ELSE LET m == CHOOSE x \in S : \A y \in S : x <= y
         IN <<m>> \o ascending(S \ {m})

players_of(rows) == {rows[i].player : i \in 1..Len(rows)} \ {NoPlayer}

\* the group sizes counted from zero
groupby_player_size_from_zero(rows) ==
    LET ps == ascending(players_of(rows))
    IN [k \in 1..Len(ps) |->
          [player |-> ps[k],
           count |-> Cardinality({i \in 1..Len(rows) : rows[i].player = ps[k]}) - 1]]

\* rows.groupby("player").size().reset_index(name="count")
groupby_player_size(rows) ==
    LET ps == ascending(players_of(rows))
    IN [k \in 1..Len(ps) |->
          [player |-> ps[k],
           count |-> Cardinality({i \in 1..Len(rows) : rows[i].player = ps[k]})]]

\* pandas sorts with numpy's quicksort unless told otherwise, and that sort
\* is not stable: rows with equal keys can come out in any order.  Two of
\* these orders are modelled: the tied rows keep their order ("stable"), or
\* come out in the opposite order ("reversed").
TieOrders == {"stable", "reversed"}

Min2(a, b) == IF a <= b THEN a ELSE b

\* sort_values("count", ascending=False) on rows with a count
RECURSIVE sort_descending(_, _)
sort_descending(rows, tie) ==
    IF rows = <<>> THEN <<>>
    ELSE LET top == {i \in 1..Len(rows) :
                        \A j \in 1..Len(rows) : rows[j].count <= rows[i].count}
             k == IF tie = "stable"
                  THEN CHOOSE i \in top : \A j \in top : i <= j
                  ELSE CHOOSE i \in top : \A j \in top : j <= i
         IN <<rows[k]>> \o
            sort_descending(SubSeq(rows, 1, k - 1) \o SubSeq(rows, k + 1, Len(rows)), tie)

\* the values of a column
column(rows, col) == [i \in 1..Len(rows) |-> rows[i][col]]

\* lines 326-331 of plot_progressions: the two count tables are stacked,
\* summed per player (groupby puts the players in ascending order) and
\* sorted by the total, descending
ordered_players_of(pass_counts, carry_counts, tie) ==
    LET df == pass_counts \o carry_counts
        players == ascending({df[i].player : i \in 1..Len(df)})
        RECURSIVE sum_counts(_, _)
        sum_counts(p, i) ==
            IF i > Len(df) THEN 0
            ELSE (IF df[i].player = p THEN df[i].count ELSE 0) + sum_counts(p, i + 1)
        total_counts == [k \in 1..Len(players) |->
                            [player |-> players[k], count |-> sum_counts(players[k], 1)]]
    IN column(sort_descending(total_counts, tie), "player")

\* lines 293-310 of plot_progressions: the two filters and their counts
plot_progressions(events, team) ==
    IF \/ compare_raises(events, "x")
       \/ compare_raises(events, "pass_end_x")
       \/ compare_raises(events, "carry_end_x")
    THEN [status |-> "TypeError", view |-> "bar", team |-> team]
    ELSE LET pass_events == f3rd_pass_events(events, team)
             carry_events == f3rd_carry_events(events, team)
         IN [status |-> "ok", view |-> "bar", team |-> team,
             pass_events |-> pass_events,
             carry_events |-> carry_events,
             pass_counts |-> groupby_player_size(pass_events),
             carry_counts |-> groupby_player_size(carry_events)]

\* lines 153-155 of main and 285-348: what "Progressions into Final Third"
\* can show, the bars in the order of ordered_players
progressions_view(events, team) ==
    LET r == plot_progressions(events, team)
    IN IF r.status # "ok" THEN {r}
       ELSE {r @@ [ordered_players |->
                      ordered_players_of(r.pass_counts, r.carry_counts, tie)]
             : tie \in TieOrders}

\* lines 173-175 of main: the players with at least one progression
players_progressions(events, team) ==
    ascending(players_of(f3rd_pass_events(events, team))
              \cup players_of(f3rd_carry_events(events, team)))

\* lines 356-370 of plot_progressions_map: the filters of the selected player
plot_progressions_map(events, team, player_name) ==
    [status |-> "ok", view |-> "map", team |-> team, player |-> player_name,
     pass_events |-> SelectSeq(events,
         LAMBDA r : is_f3rd_pass(r, team) /\ r.player = player_name),
     carry_events |-> SelectSeq(events,
         LAMBDA r : is_f3rd_carry(r, team) /\ r.player = player_name)]

\* lines 157-180 of main: what the "Progressions Map" branch can show, one
\* outcome per player the user can select
progressions_map_view(events, team) ==
    IF \/ compare_raises(events, "x")
       \/ compare_raises(events, "pass_end_x")
       \/ compare_raises(events, "carry_end_x")
    THEN {[status |-> "TypeError", view |-> "map", team |-> team]}
    ELSE LET players == players_progressions(events, team)
         IN IF players = <<>>
            THEN {[status |-> "error", view |-> "map", team |-> team,
                   message |-> "No progression events available for the selected team/matches."]}
            ELSE {plot_progressions_map(events, team, players[k]) : k \in 1..Len(players)}

---------------------------------------------------------------------------
(* Percentile values *)

Frac(n, d) == [nan |-> FALSE, num |-> n, den |-> d]
NaNPerc == [nan |-> TRUE, num |-> 0, den |-> 1]

\* np.count_nonzero(a < score) and np.count_nonzero(a <= score)
RECURSIVE count_lt(_, _)
count_lt(a, score) ==
    IF a = <<>> THEN 0
    ELSE (IF Head(a) < score THEN 1 ELSE 0) + count_lt(Tail(a), score)

RECURSIVE count_le(_, _)
count_le(a, score) ==
    IF a = <<>> THEN 0
    ELSE (IF Head(a) <= score THEN 1 ELSE 0) + count_le(Tail(a), score)

\* kind='rank' (scipy's default): what the call yields when kind='mean' is dropped
percentileofscore_rank(a, score) ==
    IF Len(a) = 0 THEN NaNPerc
    ELSE LET left == count_lt(a, score)
             right == count_le(a, score)
         IN Frac((left + right + (IF left < right THEN 1 ELSE 0)) * 50, Len(a))

\* the two counts added but not halved
percentileofscore_sum(a, score) ==
    IF Len(a) = 0 THEN NaNPerc
    ELSE Frac((count_lt(a, score) + count_le(a, score)) * 100, Len(a))

\* scipy.stats.percentileofscore(a, score, kind='mean'):
\* (left + right) * (50.0 / n), NaN on an empty sample
percentileofscore(a, score) ==
    IF Len(a) = 0 THEN NaNPerc
    ELSE LET left == count_lt(a, score)
             right == count_le(a, score)
         IN Frac((left + right) * 50, Len(a))

\* The "if counts_df.empty: perc = 0 else: perc = percentileofscore(...)"
\* fragment, once per report card.
goalkeeper_perc(gk_counts_df, count) ==
    IF gk_counts_df = <<>> THEN Frac(0, 1)
    ELSE percentileofscore(gk_counts_df, count)

defender_perc(defender_counts_df, count) ==
    IF defender_counts_df = <<>> THEN Frac(0, 1)
    ELSE percentileofscore(defender_counts_df, count)

midfielder_perc(midfielder_counts_df, count) ==
    IF midfielder_counts_df = <<>> THEN Frac(0, 1)
    ELSE percentileofscore(midfielder_counts_df, count)

\* the forward card without its empty-population guard
forward_perc_unguarded(forward_counts_df, count) ==
    percentileofscore(forward_counts_df, count)

forward_perc(forward_counts_df, count) ==
    IF forward_counts_df = <<>> THEN Frac(0, 1)
    ELSE percentileofscore(forward_counts_df, count)

Cards == {"Goalkeeper", "Defender", "Midfielder", "Forward"}

card_perc(card, counts, count) ==
    CASE card = "Goalkeeper" -> goalkeeper_perc(counts, count)
      [] card = "Defender"   -> defender_perc(counts, count)
      [] card = "Midfielder" -> midfielder_perc(counts, count)
      [] card = "Forward"    -> forward_perc(counts, count)

---------------------------------------------------------------------------
(* Report cards *)

\* main's defender list without the right wing back
main_defender_positions_short ==
    {"Center Back", "Left Center Back", "Right Center Back", "Left Wing Back"}

\* the position lists of main (candidate players), lines 214, 226, 238-251, 263
main_goalkeeper_positions == {"Goalkeeper"}
main_defender_positions ==
    {"Center Back", "Left Center Back", "Right Center Back",
     "Left Wing Back", "Right Wing Back"}
main_midfielder_positions ==
    {"Center Attacking Midfield", "Center Defensive Midfield",
     "Left Attacking Midfield", "Left Center Midfield",
     "Left Defensive Midfield", "Left Midfield",
     "Right Attacking Midfield", "Right Center Midfield",
     "Right Defensive Midfield", "Right Midfield",
     "Left Wing", "Right Wing"}
main_forward_positions ==
    {"Center Forward", "Left Center Forward", "Right Center Forward"}

main_positions(card) ==
    CASE card = "Goalkeeper" -> main_goalkeeper_positions
      [] card = "Defender"   -> main_defender_positions
      [] card = "Midfielder" -> main_midfielder_positions
      [] card = "Forward"    -> main_forward_positions

\* the position lists of the report card functions (reference population)
goalkeeper_positions == {"Goalkeeper"}
defender_positions ==
    {"Center Back", "Left Center Back", "Right Center Back",
     "Left Wing Back", "Right Wing Back"}
midfielder_positions ==
    {"Center Attacking Midfield", "Center Defensive Midfield",
     "Left Attacking Midfield", "Left Center Midfield",
     "Left Defensive Midfield", "Left Midfield",
     "Right Attacking Midfield", "Right Center Midfield",
     "Right Defensive Midfield", "Right Midfield",
     "Left Wing", "Right Wing"}
forward_positions ==
    {"Center Forward", "Left Center Forward", "Right Center Forward"}

\* the metric lists
goalkeeper_metrics ==
    <<"Goal Keeper", "Pass", "Ball Receipt*", "Pressure", "Clearance",
      "Block", "Shield">>
recommended_defender_metrics ==
    <<"Clearance", "Block", "Interception", "Duel", "Ball Recovery",
      "Pressure", "50/50", "Dribbled Past", "Miscontrol", "Dispossessed",
      "Foul Committed", "Foul Won">>
midfielder_event_list ==
    <<"Pass", "Ball Receipt*", "Carry", "Dribble", "Shot", "Interception",
      "Duel", "Foul Won", "Pressure", "Dispossessed", "Miscontrol",
      "Dribbled Past", "Ball Recovery", "Shield">>
forward_metrics ==
    <<"Shot", "Goal", "Pass", "Ball Receipt*", "Dribble", "Duel", "Offside",
      "Foul Won", "Pressure", "Miscontrol">>

\* df[df.position.isin(positions)] and df[df.player == name]
at_positions(df, positions) == SelectSeq(df, LAMBDA r : r.position \in positions)
of_player(df, name) == SelectSeq(df, LAMBDA r : r.player = name)

\* df[df['type'] == metric]
of_type(df, metric) == SelectSeq(df, LAMBDA r : r.type = metric)

\* df[(df.type == "Shot") & (df.shot_outcome == "Goal")]
goals(df) == SelectSeq(df, LAMBDA r : r.type = "Shot" /\ r.shot_outcome = "Goal")

\* plot_goalkeeper_report_card with the selected count taken from the
\* match-filtered events
plot_goalkeeper_report_card_events(events, goalkeeper_name, full_goalkeeper_events) ==
    LET full_gks == at_positions(full_goalkeeper_events, goalkeeper_positions)
        selected_gk_events == of_player(events, goalkeeper_name)
    IN [k \in 1..Len(goalkeeper_metrics) |->
          LET metric == goalkeeper_metrics[k]
              count == Len(of_type(selected_gk_events, metric))
              gk_counts_df == groupby_player_size(of_type(full_gks, metric))
          IN [Metric |-> metric, Count |-> count, counts_df |-> gk_counts_df,
              Percentile |-> goalkeeper_perc(column(gk_counts_df, "count"), count)]]

\* plot_goalkeeper_report_card with the selected count taken from the
\* goalkeeper events of the tournament
plot_goalkeeper_report_card_group(events, goalkeeper_name, full_goalkeeper_events) ==
    LET full_gks == at_positions(full_goalkeeper_events, goalkeeper_positions)
        selected_gk_events == of_player(full_gks, goalkeeper_name)
    IN [k \in 1..Len(goalkeeper_metrics) |->
          LET metric == goalkeeper_metrics[k]
              count == Len(of_type(selected_gk_events, metric))
              gk_counts_df == groupby_player_size(of_type(full_gks, metric))
          IN [Metric |-> metric, Count |-> count, counts_df |-> gk_counts_df,
              Percentile |-> goalkeeper_perc(column(gk_counts_df, "count"), count)]]

\* lines 583-616; Percentile is the value before it is formatted
plot_goalkeeper_report_card(events, goalkeeper_name, full_goalkeeper_events) ==
    LET full_gks == at_positions(full_goalkeeper_events, goalkeeper_positions)
        selected_gk_events == of_player(full_goalkeeper_events, goalkeeper_name)
    IN [k \in 1..Len(goalkeeper_metrics) |->
          LET metric == goalkeeper_metrics[k]
              count == Len(of_type(selected_gk_events, metric))
              gk_counts_df == groupby_player_size(of_type(full_gks, metric))
          IN [Metric |-> metric, Count |-> count, counts_df |-> gk_counts_df,
              Percentile |-> goalkeeper_perc(column(gk_counts_df, "count"), count)]]

\* lines 672-722
plot_defender_report_card(events, defender_name, full_defender_events) ==
    LET full_defenders == at_positions(full_defender_events, defender_positions)
        selected_defender_events == of_player(full_defender_events, defender_name)
    IN [k \in 1..Len(recommended_defender_metrics) |->
          LET metric == recommended_defender_metrics[k]
              count == Len(of_type(selected_defender_events, metric))
              defender_counts_df == groupby_player_size(of_type(full_defenders, metric))
          IN [Metric |-> metric, Count |-> count, counts_df |-> defender_counts_df,
              Percentile |-> defender_perc(column(defender_counts_df, "count"), count)]]

\* lines 757-817
plot_midfielder_report_card(events, midfielder_name, full_midfielder_events) ==
    LET full_midfielders == at_positions(full_midfielder_events, midfielder_positions)
        selected_midfielder_events == of_player(full_midfielder_events, midfielder_name)
    IN [k \in 1..Len(midfielder_event_list) |->
          LET ev == midfielder_event_list[k]
              count == Len(of_type(selected_midfielder_events, ev))
              midfielder_counts_df == groupby_player_size(of_type(full_midfielders, ev))
          IN [Metric |-> ev, Count |-> count, counts_df |-> midfielder_counts_df,
              Percentile |-> midfielder_perc(column(midfielder_counts_df, "count"), count)]]

\* lines 850-898: "Goal" counts the shots with shot_outcome "Goal"
plot_forward_report_card(events, forward_name, full_forward_events) ==
    LET full_forwards == at_positions(full_forward_events, forward_positions)
        selected_forward_events == of_player(full_forward_events, forward_name)
    IN [k \in 1..Len(forward_metrics) |->
          LET metric == forward_metrics[k]
              count == IF metric = "Goal"
                       THEN Len(goals(selected_forward_events))
                       ELSE Len(of_type(selected_forward_events, metric))
              forward_counts_df ==
                       IF metric = "Goal"
                       THEN groupby_player_size(goals(full_forwards))
                       ELSE groupby_player_size(of_type(full_forwards, metric))
          IN [Metric |-> metric, Count |-> count, counts_df |-> forward_counts_df,
              Percentile |-> forward_perc(column(forward_counts_df, "count"), count)]]

\* lines 211-270 of main: the candidates of a card are the players with an
\* event at a position of the group in the match-filtered events; without
\* any, an error is shown, otherwise the card of the selected one is drawn
\* with the tournament-wide table as third argument.
card_candidates(events, card) ==
    ascending(players_of(at_positions(events, main_positions(card))))

no_card_data(card) ==
    CASE card = "Goalkeeper" -> "No goalkeeper data available in the selected match(es)."
      [] card = "Defender"   -> "No defender data available in the selected match(es)."
      [] card = "Midfielder" -> "No midfielder data available in the selected match(es)."
      [] card = "Forward"    -> "No forward data available in the selected match(es)."

report_card(card, events, name, full_comp_events) ==
    CASE card = "Goalkeeper" -> plot_goalkeeper_report_card(events, name, full_comp_events)
      [] card = "Defender"   -> plot_defender_report_card(events, name, full_comp_events)
      [] card = "Midfielder" -> plot_midfielder_report_card(events, name, full_comp_events)
      [] card = "Forward"    -> plot_forward_report_card(events, name, full_comp_events)

\* lines 211-270 of main: what a report card branch can show
report_card_view(card, events, full_comp_events) ==
    LET candidates == card_candidates(events, card)
    IN IF candidates = <<>>
       THEN {[status |-> "error", card |-> card, message |-> no_card_data(card)]}
       ELSE {[status |-> "ok", card |-> card, player |-> candidates[k],
              rows |-> report_card(card, events, candidates[k], full_comp_events)]
             : k \in 1..Len(candidates)}

---------------------------------------------------------------------------
(* The other views of main, as far as their guards go *)

\* lines 182-195: "Touch Comparison"
touch_comparison_view(events) ==
    LET players == players_of(events)
    IN IF players = {}
       THEN {[status |-> "error", view |-> "Touch Comparison",
              message |-> "No player data available in the selected match(es)."]}
       ELSE UNION {
              IF players \ {player1} = {}
              THEN {[status |-> "error", view |-> "Touch Comparison",
                     message |-> "Not enough players available for comparison."]}
              ELSE {[status |-> "ok", view |-> "Touch Comparison",
                     player1 |-> player1, player2 |-> player2]
                    : player2 \in players \ {player1}}
              : player1 \in players}

\* lines 481 and 530: the mask shot_outcome == "Goal"
is_goal_shot(r) == r.shot_outcome = "Goal"

\* the mask of the other shots when a missing outcome compares False
is_non_goal_shot_notna(r) == r.shot_outcome \notin {"Goal", NoOutcome}

\* lines 482 and 531: the mask shot_outcome != "Goal"; a missing outcome
\* is not equal to "Goal", so the mask is True for it
is_non_goal_shot(r) == r.shot_outcome # "Goal"

\* lines 197-199 and 469-482: "Team Shot Map"
plot_team_shot_map(events, team) ==
    LET team_shots == SelectSeq(events, LAMBDA r : r.team = team /\ r.type = "Shot")
    IN IF team_shots = <<>>
       THEN [status |-> "error", view |-> "Team Shot Map",
             message |-> "No shot data available for the selected team/matches."]
       ELSE [status |-> "ok", view |-> "Team Shot Map", team |-> team,
             goal_shots |-> SelectSeq(team_shots, is_goal_shot),
             non_goal_shots |-> SelectSeq(team_shots, is_non_goal_shot)]

\* lines 519-531: plot_player_shot_map
plot_player_shot_map(events, player_name) ==
    LET player_shots == SelectSeq(events,
            LAMBDA r : r.player = player_name /\ r.type = "Shot" /\ r.shot_type # "Penalty")
    IN IF player_shots = <<>>
       THEN [status |-> "error", view |-> "Player Shot Map",
             message |-> "No shot data available for this player."]
       ELSE [status |-> "ok", view |-> "Player Shot Map", player |-> player_name,
             goal_shots |-> SelectSeq(player_shots, is_goal_shot),
             non_goal_shots |-> SelectSeq(player_shots, is_non_goal_shot)]

\* lines 201-209: "Player Shot Map"
player_shot_map_view(events) ==
    LET players_shots == players_of(SelectSeq(events, LAMBDA r : r.type = "Shot"))
    IN IF players_shots = {}
       THEN {[status |-> "error", view |-> "Player Shot Map",
              message |-> "No shot data available for the selected match(es)."]}
       ELSE {plot_player_shot_map(events, p) : p \in players_shots}

\* lines 1012-1015 and 1065-1068: the xG views stop on an empty shot set
xg_view(view, events, team) ==
    IF SelectSeq(events, LAMBDA r : r.team = team /\ r.type = "Shot") = <<>>
    THEN [status |-> "error", view |-> view,
          message |-> "No shot data available for the selected team."]
    ELSE [status |-> "ok", view |-> view, team |-> team]

---------------------------------------------------------------------------
(* The passing network *)

\* a completed pass of player p to player q
PassTo(m, t, p, q, loc, pend) ==
    [Event(m, t, p, "Center Back", "Pass", loc, pend, Absent, NoOutcome)
        EXCEPT !.pass_recipient = q]

\* the distinct values of a series in the order of their first appearance,
\* NaN dropped
RECURSIVE unique(_)
unique(series) ==
    IF series = <<>> THEN <<>>
    ELSE LET rest == unique(SubSeq(series, 1, Len(series) - 1))
             v == series[Len(series)]
         IN IF v = NoPlayer \/ \E i \in 1..Len(rest) : rest[i] = v
            THEN rest ELSE Append(rest, v)

\* Series.value_counts(): one row per value, NaN dropped, sorted by count
\* descending with the default sort
value_counts(series, tie) ==
    LET keys == unique(series)
    IN sort_descending(
          [k \in 1..Len(keys) |->
              [player |-> keys[k],
               count |-> Cardinality({i \in 1..Len(series) : series[i] = keys[k]})]],
          tie)

\* line 926: pd.concat([team_passes["player"], team_passes["pass_recipient"]])
players_series(team_passes) ==
    [i \in 1..Len(team_passes) |-> team_passes[i].player]
        \o [i \in 1..Len(team_passes) |-> team_passes[i].pass_recipient]

\* line 930: players_counts.head(11).index.tolist()
starting_eleven_of(players_counts) ==
    [k \in 1..Min2(11, Len(players_counts)) |-> players_counts[k].player]

RECURSIVE sum_cells(_)
sum_cells(cells) ==
    IF cells = <<>> THEN 0 ELSE Head(cells)[2] + sum_cells(Tail(cells))

\* np.mean of an array: NaN as soon as one value is NaN
np_mean(cells) ==
    IF \E i \in 1..Len(cells) : cells[i] = NaN THEN NaNPerc
    ELSE Frac(sum_cells(cells), Len(cells))

\* Series.mean(): NaN values are skipped, NaN when nothing is left
series_mean(cells) ==
    LET present == SelectSeq(cells, LAMBDA c : c # NaN)
    IN IF present = <<>> THEN NaNPerc
       ELSE Frac(sum_cells(present), Len(present))

\* the node of a player from the passes made only
node_of_passer_only(team_passes, player, total_passes) ==
    LET passer_locs == SelectSeq(team_passes, LAMBDA r : r.player = player)
    IN IF passer_locs # <<>>
       THEN [player |-> player, x |-> series_mean(column(passer_locs, "x")),
             y |-> series_mean(column(passer_locs, "y")), total_passes |-> total_passes]
       ELSE [player |-> player, x |-> Frac(0, 1), y |-> Frac(0, 1),
             total_passes |-> total_passes]

\* lines 950-971: the node of one player of the starting eleven
node_of(team_passes, player, total_passes) ==
    LET passer_locs == SelectSeq(team_passes, LAMBDA r : r.player = player)
        receiver_locs == SelectSeq(team_passes, LAMBDA r : r.pass_recipient = player)
        avg == IF passer_locs # <<>> /\ receiver_locs # <<>>
               THEN [x |-> np_mean(column(passer_locs, "x")
                                   \o column(receiver_locs, "pass_end_x")),
                     y |-> np_mean(column(passer_locs, "y")
                                   \o column(receiver_locs, "pass_end_y"))]
               ELSE IF passer_locs # <<>>
               THEN [x |-> series_mean(column(passer_locs, "x")),
                     y |-> series_mean(column(passer_locs, "y"))]
               ELSE IF receiver_locs # <<>>
               THEN [x |-> series_mean(column(receiver_locs, "pass_end_x")),
                     y |-> series_mean(column(receiver_locs, "pass_end_y"))]
               ELSE [x |-> Frac(0, 1), y |-> Frac(0, 1)]
    IN [player |-> player, x |-> avg.x, y |-> avg.y, total_passes |-> total_passes]

\* lines 939-946: one row per (passer, recipient) pair, in key order, with
\* the number of passes of the pair
pass_group_of(team_passes) ==
    LET passers == ascending(players_of(team_passes))
        pairs_of(p) ==
            LET to == ascending({team_passes[i].pass_recipient :
                                    i \in {j \in 1..Len(team_passes) :
                                              team_passes[j].player = p}})
            IN [k \in 1..Len(to) |->
                  [player |-> p, pass_recipient |-> to[k],
                   pass_count |-> Cardinality({i \in 1..Len(team_passes) :
                                      /\ team_passes[i].player = p
                                      /\ team_passes[i].pass_recipient = to[k]})]]
        RECURSIVE all_pairs(_)
        all_pairs(k) ==
            IF k > Len(passers) THEN <<>>
            ELSE pairs_of(passers[k]) \o all_pairs(k + 1)
    IN all_pairs(1)

\* the filter with the passer alone required to be in the starting eleven
among_starting_eleven_passer(team_passes, starting_eleven) ==
    LET eleven == {starting_eleven[k] : k \in 1..Len(starting_eleven)}
    IN SelectSeq(team_passes, LAMBDA r : r.player \in eleven)

\* lines 933-936: the passes whose passer and recipient are both in the
\* starting eleven
among_starting_eleven(team_passes, starting_eleven) ==
    LET eleven == {starting_eleven[k] : k \in 1..Len(starting_eleven)}
    IN SelectSeq(team_passes, LAMBDA r :
                    r.player \in eleven /\ r.pass_recipient \in eleven)

\* lines 978-990: for each row of pass_group the nodes of the passer and of
\* the recipient are looked up; .iloc[0] on an empty lookup raises
\* IndexError and the row is skipped, otherwise an arrow is drawn from the
\* passer's node to the recipient's, as wide as pass_count * 0.05
draw_edges(pass_group, nodes) ==
    LET lookup(p) == SelectSeq(nodes, LAMBDA n : n.player = p)
        found(row) == lookup(row.player) # <<>> /\ lookup(row.pass_recipient) # <<>>
        rows == SelectSeq(pass_group, found)
    IN [arrows |-> [k \in 1..Len(rows) |->
                      LET passer == lookup(rows[k].player)[1]
                          recipient == lookup(rows[k].pass_recipient)[1]
                      IN [player |-> passer.player,
                          pass_recipient |-> recipient.player,
                          from |-> <<passer.x, passer.y>>,
                          to |-> <<recipient.x, recipient.y>>,
                          pass_count |-> rows[k].pass_count]],
        skipped |-> SelectSeq(pass_group, LAMBDA row : ~found(row))]

\* lines 918-990 of plot_team_passing_network.  The column pass_recipient
\* exists only when some event of the table has a recipient; reading it
\* from a table without it raises KeyError.
plot_team_passing_network(events, team, tie) ==
    IF \A i \in 1..Len(events) : events[i].pass_recipient = NoPlayer
    THEN [status |-> "KeyError", view |-> "Team Passing Network", team |-> team]
    ELSE LET all_passes == SelectSeq(events, LAMBDA r :
                              /\ r.team = team
                              /\ r.type = "Pass"
                              /\ r.pass_outcome = NoOutcome)
             players_counts == value_counts(players_series(all_passes), tie)
             starting_eleven == starting_eleven_of(players_counts)
             team_passes == among_starting_eleven(all_passes, starting_eleven)
             pass_group == pass_group_of(team_passes)
             nodes == [k \in 1..Len(starting_eleven) |->
                          node_of(team_passes, starting_eleven[k],
                                  players_counts[k].count)]
             drawn == draw_edges(pass_group, nodes)
         IN [status |-> "ok", view |-> "Team Passing Network", team |-> team,
             completed_passes |-> all_passes,
             players_counts |-> players_counts,
             starting_eleven |-> starting_eleven,
             team_passes |-> team_passes,
             pass_group |-> pass_group,
             nodes |-> nodes,
             edges |-> drawn.arrows,
             skipped |-> drawn.skipped]

\* line 124-129: the radio's options that are report cards
card_of(viz_option) ==
    CASE viz_option = "Goalkeeper Report Card" -> "Goalkeeper"
      [] viz_option = "Defender Report Card"   -> "Defender"
      [] viz_option = "Midfielder Report Card" -> "Midfielder"
      [] viz_option = "Forward Report Card"    -> "Forward"

VizOptions ==
    {"Progressions into Final Third", "Progressions Map", "Touch Comparison",
     "Player Shot Map", "Team Shot Map", "Team Passing Network",
     "Team xG Hot Zones", "xG vs. Actual Goals", "Goalkeeper Report Card",
     "Defender Report Card", "Midfielder Report Card", "Forward Report Card"}

\* lines 152-282 of main: what the selected visualisation can show
dispatch(viz_option, events, team, full_comp_events) ==
    CASE viz_option = "Progressions into Final Third" ->
            progressions_view(events, team)
      [] viz_option = "Progressions Map" -> progressions_map_view(events, team)
      [] viz_option = "Touch Comparison" -> touch_comparison_view(events)
      [] viz_option = "Team Shot Map" -> {plot_team_shot_map(events, team)}
      [] viz_option = "Player Shot Map" -> player_shot_map_view(events)
      [] viz_option \in {"Goalkeeper Report Card", "Defender Report Card",
                         "Midfielder Report Card", "Forward Report Card"} ->
            report_card_view(card_of(viz_option), events, full_comp_events)
      [] viz_option = "Team Passing Network" ->
            {plot_team_passing_network(events, team, tie) : tie \in TieOrders}
      [] viz_option = "Team xG Hot Zones" ->
            {xg_view("Team xG Hot Zones", events, team)}
      [] viz_option = "xG vs. Actual Goals" ->
            {xg_view("xG vs. Actual Goals", events, team)}

\* a view whose column writes go to the tables it was given
tables_after_view_inplace(viz_option, events, full_comp_events) ==
    [events |->
        IF viz_option = "Team xG Hot Zones"
        THEN [i \in 1..Len(events) |->
                 events[i] @@ [shot_end_x |-> NaN, shot_end_y |-> NaN]]
        ELSE events,
     full_comp_events |-> full_comp_events]

\* the two tables as a view leaves them.  Every view reads them through
\* boolean indexing, groupby or .copy() (lines 293-306, 470, 520, 586-589,
\* 919-923, 1012, 1065), which build new tables; the column writes of the
\* views (lines 322-323, 946, 1020) go to those.
tables_after_view(viz_option, events, full_comp_events) ==
    [events |-> events, full_comp_events |-> full_comp_events]

---------------------------------------------------------------------------
(* st.cache_data and the cached loaders *)

\* sb.competitions()
sb_competitions == <<[competition_id |-> 55, season_id |-> 282]>>

\* the key of a call of load_events_for_matches, taken from the number of
\* match ids only
events_key_len(match_ids) == <<"load_events_for_matches", <<Len(match_ids)>>>>

\* the key under which st.cache_data memoizes load_events_for_matches: the
\* function and the value of its argument, the tuple of match ids
events_key(match_ids) == <<"load_events_for_matches", match_ids>>

\* lines 44-52 with the fail_at-th call of sb.events raising (0: none does):
\* the outcome, the table built so far and the matches requested upstream
events_body(match_ids, fail_at) ==
    IF fail_at = 0
    THEN [ok |-> TRUE, rows |-> load_events_body(match_ids), fetched |-> match_ids]
    ELSE [ok |-> FALSE,
          rows |-> load_events_body(SubSeq(match_ids, 1, fail_at - 1)),
          fetched |-> SubSeq(match_ids, 1, fail_at)]

\* a decorator that also memoizes what a raising body had built
st_cache_data_poisoned(store, key, outcome) ==
    IF key \in DOMAIN store
    THEN [hit |-> TRUE, ok |-> TRUE, rows |-> store[key], store |-> store]
    ELSE [hit |-> FALSE, ok |-> outcome.ok, rows |-> outcome.rows,
          store |-> (key :> outcome.rows) @@ store]

\* a decorator that memoizes nothing
st_cache_data_off(store, key, outcome) ==
    [hit |-> FALSE, ok |-> outcome.ok, rows |-> outcome.rows, store |-> store]

\* @st.cache_data (lines 32, 37, 42, 54): a call whose key is memoized
\* returns the stored table without running the body; otherwise the body
\* runs, and its table is memoized only if it returns
st_cache_data(store, key, outcome) ==
    IF key \in DOMAIN store
    THEN [hit |-> TRUE, ok |-> TRUE, rows |-> store[key], store |-> store]
    ELSE IF outcome.ok
         THEN [hit |-> FALSE, ok |-> TRUE, rows |-> outcome.rows,
               store |-> (key :> outcome.rows) @@ store]
         ELSE [hit |-> FALSE, ok |-> FALSE, rows |-> <<>>, store |-> store]

TournamentLoaders ==
    <<"load_competitions", "load_matches", "load_full_competition_events">>

\* the bodies of the loaders without arguments, lines 34, 39 and 57-70
loader_body(fn) ==
    CASE fn = "load_competitions" -> sb_competitions
      [] fn = "load_matches" -> sb_matches
      [] fn = "load_full_competition_events" ->
            full_normalize(sb_competition_events).rows

\* lines 75-78 of main: the three cached calls in turn; the upstream call of
\* loader fail raises.  The first exception ends the pass.
RECURSIVE load_all(_, _, _)
load_all(fns, store, fail) ==
    IF fns = <<>>
    THEN [ok |-> TRUE, store |-> store, raised |-> "none", ran |-> {}, returned |-> <<>>]
    ELSE LET fn == Head(fns)
             res == st_cache_data(store, <<fn, <<>>>>,
                        IF fail = fn THEN [ok |-> FALSE, rows |-> <<>>]
                        ELSE [ok |-> TRUE, rows |-> loader_body(fn)])
         IN IF ~res.ok
            THEN [ok |-> FALSE, store |-> res.store, raised |-> fn, ran |-> {},
                  returned |-> <<>>]
            ELSE LET rest == load_all(Tail(fns), res.store, fail)
                 IN [rest EXCEPT
                        !.ran = @ \cup (IF res.hit THEN {} ELSE {fn}),
                        !.returned = (fn :> res.rows) @@ @]

bump(f, k) == (k :> ((IF k \in DOMAIN f THEN f[k] ELSE 0) + 1)) @@ f

---------------------------------------------------------------------------
(* Specification of the percentile fragment: the inputs are drawn by Init, *)
(* the action builds the report row of each card.                          *)

\* groupby('player').size() yields one count >= 1 per player with an event;
\* count_nonzero does not depend on the order, so the counts are drawn
\* in nondecreasing order.
Populations ==
    {s \in UNION {[1..n -> 1..MaxCount] : n \in 0..MaxPop} :
        \A i \in 1..(Len(s) - 1) : s[i] <= s[i + 1]}

InitPerc ==
    /\ counts_df \in Populations
    /\ selected_count \in 0..MaxCount
    /\ perc = <<>>
    /\ raw = <<>>
    /\ norm = NotRun
    /\ prog = NotRun
    /\ report = NotRun
    /\ NoRender

ReportRow ==
    /\ perc = <<>>
    /\ perc' = [card \in Cards |-> card_perc(card, counts_df, selected_count)]
    /\ UNCHANGED <<counts_df, selected_count, raw, norm, prog, report, renderVars>>

NextPerc == ReportRow

SpecPerc == InitPerc /\ [][NextPerc]_vars

---------------------------------------------------------------------------
(* Claims about the percentile fragment *)

Below == Cardinality({i \in 1..Len(counts_df) : counts_df[i] < selected_count})
Equal == Cardinality({i \in 1..Len(counts_df) : counts_df[i] = selected_count})

\* C1: on a non-empty population of size n, every card reports
\* (below + 0.5 * equal) / n * 100 for the selected count.
C1_MeanPercentile ==
    \A card \in DOMAIN perc :
        counts_df # <<>> =>
            /\ ~perc[card].nan
            /\ perc[card].num * (2 * Len(counts_df))
                 = (2 * Below + Equal) * 100 * perc[card].den

\* population [1,2,3,4,5], count 5: the reported percentile is 90
C1_Witness ==
    /\ counts_df = <<1, 2, 3, 4, 5>>
    /\ selected_count = 5
    /\ DOMAIN perc = Cards
    /\ \A card \in Cards : perc[card].num = 90 * perc[card].den

\* C2: on an empty population every card reports exactly 0, not NaN,
\* whatever the selected count.
C2_EmptyPopulationZero ==
    \A card \in DOMAIN perc :
        counts_df = <<>> => (~perc[card].nan /\ perc[card].num = 0)

C2_Witness ==
    /\ counts_df = <<>>
    /\ selected_count = 3
    /\ DOMAIN perc = Cards
    /\ perc["Forward"] = Frac(0, 1)

\* C3: every percentile is a finite number between 0 and 100.
C3_PercentileRange ==
    \A card \in DOMAIN perc :
        /\ ~perc[card].nan
        /\ perc[card].den > 0
        /\ 0 <= perc[card].num
        /\ perc[card].num <= 100 * perc[card].den

\* the selected count exceeds every population count: percentile 100
C3_Witness ==
    /\ counts_df = <<1, 2>>
    /\ selected_count = 4
    /\ DOMAIN perc = Cards
    /\ perc["Midfielder"].num = 100 * perc["Midfielder"].den

---------------------------------------------------------------------------
(* Specification of the normaliser and the progression filters: Init draws *)
(* a raw event table, the actions normalise it (main's way or the          *)
(* tournament loader's way) and run a progression view on main's result.   *)

\* a completed pass of team A from x=70 to x=85
ProgPass(m, p) ==
    Event(m, "A", p, "Center Back", "Pass", Pair(70, 40), Pair(85, 40), Absent, NoOutcome)

\* events whose location fields are a pair of numbers or missing
WellFormedPool ==
    { ProgPass(1, 1), ProgPass(1, 2), ProgPass(2, 3), ProgPass(2, NoPlayer),
      Event(1, "A", 1, "Center Back", "Pass", Pair(70, 40), Pair(85, 40), Absent, "Incomplete"),
      Event(1, "A", 2, "Center Back", "Pass", Pair(80, 40), Pair(85, 40), Absent, NoOutcome),
      Event(2, "A", 3, "Center Back", "Pass", Pair(70, 40), Pair(80, 40), Absent, NoOutcome),
      Event(1, "A", 1, "Center Back", "Pass", Absent, Pair(85, 40), Absent, NoOutcome),
      Event(2, "A", 2, "Center Back", "Pass", Pair(70, 40), Absent, Absent, NoOutcome),
      Event(1, "B", 4, "Center Forward", "Pass", Pair(70, 40), Pair(85, 40), Absent, NoOutcome),
      Event(1, "A", 1, "Center Back", "Carry", Pair(70, 40), Absent, Pair(85, 40), NoOutcome),
      Event(2, "A", 2, "Center Back", "Carry", Absent, Absent, Pair(85, 40), NoOutcome),
      Event(2, "A", 3, "Center Back", "Carry", Pair(70, 40), Absent, Absent, NoOutcome) }

\* events with a location field of another shape: one, three or no
\* elements, non-numeric elements, an object that is no list
MalformedPool ==
    { Event(1, "A", 1, "Center Back", "Pass", List(<<Num(50)>>), Pair(85, 40), Absent, NoOutcome),
      Event(1, "A", 1, "Center Back", "Pass", List(<<Num(70), Num(40), Num(0)>>), Pair(85, 40), Absent, NoOutcome),
      Event(1, "A", 1, "Center Back", "Pass", List(<<Str, Str>>), Pair(85, 40), Absent, NoOutcome),
      Event(1, "A", 1, "Center Back", "Pass", List(<<>>), Pair(85, 40), Absent, NoOutcome),
      Event(1, "A", 1, "Center Back", "Pass", NonList, Pair(85, 40), Absent, NoOutcome),
      Event(1, "A", 1, "Center Back", "Pass", Pair(70, 40), List(<<Num(85)>>), Absent, NoOutcome),
      Event(1, "A", 1, "Center Back", "Carry", Pair(70, 40), Absent, List(<<Num(85)>>), NoOutcome) }

Tables(pool, maxlen) == UNION {[1..n -> pool] : n \in 1..maxlen}

Teams == {"A", "B"}

InitNorm ==
    /\ raw \in Tables(WellFormedPool, MaxRows)
                 \cup Tables(WellFormedPool \cup MalformedPool, MaxBadRows)
    /\ norm = NotRun
    /\ prog = NotRun
    /\ report = NotRun
    /\ counts_df = <<>>
    /\ selected_count = 0
    /\ perc = <<>>
    /\ NoRender

\* main, lines 137-146
NormalizeMain ==
    /\ norm = NotRun
    /\ norm' = main_normalize(raw)
    /\ UNCHANGED <<raw, prog, report, counts_df, selected_count, perc, renderVars>>

\* load_full_competition_events, lines 64-68
NormalizeFull ==
    /\ norm = NotRun
    /\ norm' = full_normalize(raw)
    /\ UNCHANGED <<raw, prog, report, counts_df, selected_count, perc, renderVars>>

\* main, lines 153-155: the "Progressions into Final Third" view
ViewProgressions ==
    /\ norm.status = "ok"
    /\ norm.path = "main"
    /\ prog = NotRun
    /\ \E team \in Teams : prog' \in progressions_view(norm.rows, team)
    /\ UNCHANGED <<raw, norm, report, counts_df, selected_count, perc, renderVars>>

\* main, lines 157-180: the "Progressions Map" view
ViewProgressionsMap ==
    /\ norm.status = "ok"
    /\ norm.path = "main"
    /\ prog = NotRun
    /\ \E team \in Teams : prog' \in progressions_map_view(norm.rows, team)
    /\ UNCHANGED <<raw, norm, report, counts_df, selected_count, perc, renderVars>>

NextNorm ==
    \/ NormalizeMain
    \/ NormalizeFull
    \/ ViewProgressions
    \/ ViewProgressionsMap

SpecNorm == InitNorm /\ [][NextNorm]_vars

---------------------------------------------------------------------------
(* Claims about the progression filters and the normaliser *)

ThreePasses == <<ProgPass(1, 1), ProgPass(1, 2), ProgPass(2, 3)>>

C5_Selected(r, T) ==
    /\ r.team = T
    /\ r.type = "Pass"
    /\ r.x[1] = "num" /\ r.x[2] < 80
    /\ r.pass_end_x[1] = "num" /\ r.pass_end_x[2] > 80
    /\ r.pass_outcome = "nan"

\* C5: the pass progression filter of team T returns exactly the rows with
\* team = T, type = Pass, x < 80, pass_end_x > 80 and no pass_outcome, in
\* table order; three players of team A with one such pass each give three
\* rows and a count of 1 per player.
C5_PassProgressionFilter ==
    (prog.status = "ok" /\ prog.view = "bar") =>
        /\ prog.pass_events = SelectSeq(norm.rows, LAMBDA r : C5_Selected(r, prog.team))
        /\ (raw = ThreePasses /\ prog.team = "A") =>
              /\ Len(prog.pass_events) = 3
              /\ prog.pass_counts = <<[player |-> 1, count |-> 1],
                                      [player |-> 2, count |-> 1],
                                      [player |-> 3, count |-> 1]>>

C5_Witness ==
    /\ raw = ThreePasses
    /\ prog.status = "ok" /\ prog.view = "bar" /\ prog.team = "A"
    /\ Len(prog.pass_events) = 3

\* C6: main's normalisation turns an absent location field into two null
\* coordinates (never zero), and no progression filter returns a row whose
\* x or end-x coordinate is null.
C6_NullCoordinatesExcluded ==
    /\ (norm.status = "ok" /\ norm.path = "main") =>
          \A i \in 1..Len(raw) :
              /\ raw[i].location = Absent =>
                    (norm.rows[i].x = NaN /\ norm.rows[i].y = NaN)
              /\ raw[i].pass_end_location = Absent =>
                    (norm.rows[i].pass_end_x = NaN /\ norm.rows[i].pass_end_y = NaN)
              /\ raw[i].carry_end_location = Absent =>
                    (norm.rows[i].carry_end_x = NaN /\ norm.rows[i].carry_end_y = NaN)
    /\ prog.status = "ok" =>
          /\ \A i \in 1..Len(prog.pass_events) :
                /\ prog.pass_events[i].x # NaN
                /\ prog.pass_events[i].pass_end_x # NaN
          /\ \A i \in 1..Len(prog.carry_events) :
                /\ prog.carry_events[i].x # NaN
                /\ prog.carry_events[i].carry_end_x # NaN

\* a pass of team A without location that otherwise qualifies, next to one
\* that qualifies: only the second is returned
C6_Witness ==
    /\ raw = <<Event(1, "A", 1, "Center Back", "Pass", Absent, Pair(85, 40), Absent, NoOutcome),
               ProgPass(1, 2)>>
    /\ norm.status = "ok" /\ norm.path = "main"
    /\ norm.rows[1].x = NaN /\ norm.rows[1].y = NaN
    /\ prog.status = "ok" /\ prog.view = "bar" /\ prog.team = "A"
    /\ Len(prog.pass_events) = 1

\* progressions (passes plus carries) of player p in the filtered events
C13_Total(p) ==
    Cardinality({i \in 1..Len(prog.pass_events) : prog.pass_events[i].player = p})
    + Cardinality({i \in 1..Len(prog.carry_events) : prog.carry_events[i].player = p})

\* C13: the players of the progression chart are ordered by total count
\* (passes plus carries) descending, and players with equal totals by
\* player identifier ascending.
C13_OrderedByCountThenPlayer ==
    (prog.status = "ok" /\ prog.view = "bar") =>
        /\ {prog.ordered_players[k] : k \in 1..Len(prog.ordered_players)}
              = players_of(prog.pass_events) \cup players_of(prog.carry_events)
        /\ \A k \in 1..(Len(prog.ordered_players) - 1) :
              LET p == prog.ordered_players[k]
                  q == prog.ordered_players[k + 1]
              IN \/ C13_Total(p) > C13_Total(q)
                 \/ (C13_Total(p) = C13_Total(q) /\ p < q)

WellFormed(loc) ==
    /\ loc.kind = "list"
    /\ Len(loc.elems) = 2
    /\ loc.elems[1][1] = "num"
    /\ loc.elems[2][1] = "num"

\* C7: neither normalisation raises, and a location field that is absent
\* or malformed yields a null x and a null y.
C7_MalformedLocationToNull ==
    /\ norm.status \in {"not run", "ok"}
    /\ norm.status = "ok" =>
          \A i \in 1..Len(raw) :
              /\ ~WellFormed(raw[i].location) =>
                    (norm.rows[i].x = NaN /\ norm.rows[i].y = NaN)
              /\ ~WellFormed(raw[i].pass_end_location) =>
                    (norm.rows[i].pass_end_x = NaN /\ norm.rows[i].pass_end_y = NaN)
              /\ ~WellFormed(raw[i].carry_end_location) =>
                    (norm.rows[i].carry_end_x = NaN /\ norm.rows[i].carry_end_y = NaN)

\* a location field that is a 2-element list or absent
C21_ListOfTwoOrAbsent(loc) ==
    \/ loc = Absent
    \/ (loc.kind = "list" /\ Len(loc.elems) = 2)

C21_Applies ==
    \A i \in 1..Len(raw) :
        /\ C21_ListOfTwoOrAbsent(raw[i].location)
        /\ C21_ListOfTwoOrAbsent(raw[i].pass_end_location)
        /\ C21_ListOfTwoOrAbsent(raw[i].carry_end_location)

C21_Coordinates(r) ==
    <<r.x, r.y, r.pass_end_x, r.pass_end_y, r.carry_end_x, r.carry_end_y>>

\* C21: on a table whose location fields are each a 2-element list or
\* absent, the tournament loader's normalisation and main's normalisation
\* give every row the same six coordinate values and give the table the same
\* set of coordinate columns.
C21_NormalisationPathsAgree ==
    (norm.status = "ok" /\ C21_Applies) =>
        LET m == main_normalize(raw)
            f == full_normalize(raw)
        IN /\ m.status = "ok"
           /\ f.status = "ok"
           /\ \A i \in 1..Len(raw) :
                 C21_Coordinates(m.rows[i]) = C21_Coordinates(f.rows[i])
           /\ coordinate_columns(m) = coordinate_columns(f)

---------------------------------------------------------------------------
(* Specification of the passing network: Init draws the events of a match, *)
(* the action normalises them and builds the network of a team.            *)

\* completed passes of team A among thirteen players; the k-th goes from
\* x = 10k to x = 10k + 5
NetPass(k, p, q) == PassTo(1, "A", p, q, Pair(10 * k, 20 + k), Pair(10 * k + 5, 40 + k))

NetPool ==
    { NetPass(1, 1, 2), NetPass(2, 3, 4), NetPass(3, 5, 6), NetPass(4, 7, 8),
      NetPass(5, 9, 10), NetPass(6, 11, 12), NetPass(7, 13, 1) }

\* the tables that hold each event of the pool at most once, in any order
NetTables ==
    {t \in UNION {[1..n -> NetPool] : n \in 1..Min2(MaxNetRows, Cardinality(NetPool))} :
        \A i, j \in 1..Len(t) : i # j => t[i] # t[j]}

\* passes between players 1 and 2: two completed passes of team A from 1 to
\* 2, one back, one from 1 to 2 that was not completed, one of team B
PairPool ==
    { NetPass(1, 1, 2), NetPass(2, 1, 2), NetPass(3, 2, 1),
      [NetPass(4, 1, 2) EXCEPT !.pass_outcome = "Incomplete"],
      PassTo(1, "B", 1, 2, Pair(50, 25), Pair(55, 45)) }

PairTables ==
    {t \in UNION {[1..n -> PairPool] : n \in 1..Min2(MaxPairRows, Cardinality(PairPool))} :
        \A i, j \in 1..Len(t) : i # j => t[i] # t[j]}

InitNet ==
    /\ raw \in NetTables \cup PairTables
    /\ norm = NotRun
    /\ prog = NotRun
    /\ report = NotRun
    /\ counts_df = <<>>
    /\ selected_count = 0
    /\ perc = <<>>
    /\ NoRender

\* main, lines 137-150 and 272-274: the "Team Passing Network" view
ViewNetwork ==
    /\ prog = NotRun
    /\ norm' = main_prepare(raw)
    /\ \E team \in Teams, tie \in TieOrders :
          prog' = plot_team_passing_network(norm'.rows, team, tie)
    /\ UNCHANGED <<raw, report, counts_df, selected_count, perc, renderVars>>

NextNet == ViewNetwork

SpecNet == InitNet /\ [][NextNet]_vars

---------------------------------------------------------------------------
(* Claims about the passing network *)

Drawn == prog.status = "ok" /\ prog.view = "Team Passing Network"

\* appearances of p as passer plus appearances as recipient
C12_Involvement(p) ==
    Cardinality({i \in 1..Len(prog.completed_passes) :
                    prog.completed_passes[i].player = p})
    + Cardinality({i \in 1..Len(prog.completed_passes) :
                    prog.completed_passes[i].pass_recipient = p})

C12_Involved ==
    ({prog.completed_passes[i].player : i \in 1..Len(prog.completed_passes)}
     \cup {prog.completed_passes[i].pass_recipient : i \in 1..Len(prog.completed_passes)})
        \ {NoPlayer}

\* the first n players of S by involvement descending, then identifier ascending
RECURSIVE C12_Top(_, _)
C12_Top(S, n) ==
    IF n = 0 \/ S = {} THEN <<>>
    ELSE LET best == CHOOSE p \in S : \A q \in S :
                        \/ C12_Involvement(q) < C12_Involvement(p)
                        \/ (C12_Involvement(q) = C12_Involvement(p) /\ p <= q)
         IN <<best>> \o C12_Top(S \ {best}, n - 1)

\* C12: the starting eleven are the min(11, involved players) players with
\* the highest involvement, listed in descending involvement order; of the
\* players tied where the list is cut, those with the smaller identifier
\* are kept, so the result is the same for every row order.
C12_StartingElevenTopByInvolvement ==
    Drawn =>
        LET top == C12_Top(C12_Involved, 11)
        IN /\ {prog.starting_eleven[k] : k \in 1..Len(prog.starting_eleven)}
                = {top[k] : k \in 1..Len(top)}
           /\ Len(prog.starting_eleven) = Len(top)
           /\ \A k \in 1..(Len(prog.starting_eleven) - 1) :
                 C12_Involvement(prog.starting_eleven[k])
                    >= C12_Involvement(prog.starting_eleven[k + 1])

\* the passes among the starting eleven, which the nodes are computed from
C14_Passes ==
    LET eleven == {prog.starting_eleven[k] : k \in 1..Len(prog.starting_eleven)}
    IN SelectSeq(prog.completed_passes,
                 LAMBDA r : r.player \in eleven /\ r.pass_recipient \in eleven)

C14_Origins(among, p) == SelectSeq(among, LAMBDA r : r.player = p)
C14_Receipts(among, p) == SelectSeq(among, LAMBDA r : r.pass_recipient = p)

\* num/den is the mean of the two columns taken together
C14_IsPooledMean(v, origins, ocol, receipts, rcol) ==
    /\ ~v.nan
    /\ v.num * (Len(origins) + Len(receipts))
         = (sum_cells(column(origins, ocol)) + sum_cells(column(receipts, rcol))) * v.den

C23_Completed(p, q) ==
    {i \in 1..Len(norm.rows) :
        /\ norm.rows[i].team = prog.team
        /\ norm.rows[i].type = "Pass"
        /\ norm.rows[i].pass_outcome = NoOutcome
        /\ norm.rows[i].player = p
        /\ norm.rows[i].pass_recipient = q}

\* C23: every row of pass_group gets its edge (no lookup of a node fails),
\* the passer and the recipient of every edge are in the starting eleven,
\* there are at most 11 nodes, and the pass_count of an edge is the number
\* of completed passes of the team from its passer to its recipient.
C23_EdgesAmongStartingEleven ==
    Drawn =>
        LET eleven == {prog.starting_eleven[k] : k \in 1..Len(prog.starting_eleven)}
        IN /\ Len(prog.nodes) <= 11
           /\ prog.skipped = <<>>
           /\ Len(prog.edges) = Len(prog.pass_group)
           /\ \A k \in 1..Len(prog.edges) :
                 LET e == prog.edges[k]
                 IN /\ e.player = prog.pass_group[k].player
                    /\ e.pass_recipient = prog.pass_group[k].pass_recipient
                    /\ e.player \in eleven
                    /\ e.pass_recipient \in eleven
                    /\ e.pass_count = Cardinality(C23_Completed(e.player, e.pass_recipient))
                    /\ e.pass_count >= 1

\* two completed passes from 1 to 2 next to one that was not completed: the
\* edge from 1 to 2 counts two
C23_Witness ==
    /\ Drawn
    /\ prog.team = "A"
    /\ Len(raw) = 3
    /\ \E i \in 1..Len(raw) : raw[i].pass_outcome = "Incomplete"
    /\ Len(prog.edges) = 1
    /\ prog.edges[1].player = 1
    /\ prog.edges[1].pass_recipient = 2
    /\ prog.edges[1].pass_count = 2

---------------------------------------------------------------------------
(* Specification of the views: Init draws the events of a one-match        *)
(* tournament, the first action prepares the two tables as main does, the  *)
(* second draws one view from them.                                        *)

PenaltyGoal(m, t, p, pos) ==
    [Shot(m, t, p, pos, Pair(108, 40), "Goal") EXCEPT !.shot_type = "Penalty"]

\* shots with a goal, another and a missing outcome, and events without a
\* position (with and without a player)
ViewPool ==
    { Shot(1, "A", 1, "Center Forward", Pair(100, 40), "Goal"),
      Shot(1, "A", 1, "Center Forward", Pair(100, 40), "Saved"),
      Shot(1, "A", 2, "Left Wing", Pair(100, 40), NoOutcome),
      PenaltyGoal(1, "A", 2, "Left Wing"),
      Shot(1, "B", 3, "Goalkeeper", Pair(20, 40), "Goal"),
      Plain(1, "A", NoPlayer, NoPosition, "Half Start"),
      Plain(1, "A", 2, NoPosition, "Pass") }

InitView ==
    /\ raw \in Tables(ViewPool, MaxViewRows)
    /\ norm = NotRun
    /\ prog = NotRun
    /\ report = NotRun
    /\ counts_df = <<>>
    /\ selected_count = 0
    /\ perc = <<>>
    /\ NoRender

\* main, lines 78 and 132-150: the tournament-wide table as its loader
\* returns it and the events table after main's normalisation
PrepareTables ==
    /\ norm = NotRun
    /\ norm' = main_prepare(load_events_body(<<1>>))
                  @@ [full_comp_events |-> full_normalize(sb_competition_events).rows]
    /\ UNCHANGED <<raw, prog, report, counts_df, selected_count, perc, renderVars>>

\* main, lines 152-282: one view is drawn from the two tables
DrawView ==
    /\ norm.status = "ok"
    /\ prog = NotRun
    /\ \E team \in Teams, viz_option \in VizOptions :
          LET after == tables_after_view(viz_option, norm.rows, norm.full_comp_events)
          IN /\ prog' \in {o @@ [viz_option |-> viz_option, selected_team |-> team] :
                              o \in dispatch(viz_option, norm.rows, team,
                                             norm.full_comp_events)}
             /\ norm' = [norm EXCEPT !.rows = after.events,
                                     !.full_comp_events = after.full_comp_events]
    /\ UNCHANGED <<raw, report, counts_df, selected_count, perc, renderVars>>

NextView ==
    \/ PrepareTables
    \/ DrawView

SpecView == InitView /\ [][NextView]_vars

---------------------------------------------------------------------------
(* Claims about the filters, the position column and the frame of a view *)

ShotMap ==
    prog.status = "ok" /\ prog.viz_option \in {"Team Shot Map", "Player Shot Map"}

\* the shot set a drawn shot map was split from
C15_Shots ==
    IF prog.view = "Team Shot Map"
    THEN SelectSeq(norm.rows, LAMBDA r : r.team = prog.team /\ r.type = "Shot")
    ELSE SelectSeq(norm.rows, LAMBDA r :
            r.player = prog.player /\ r.type = "Shot" /\ r.shot_type # "Penalty")

C15_GoalsUpTo(shots, k) ==
    Cardinality({i \in 1..k : shots[i].shot_outcome = "Goal"})

\* C15: the goal shots and the other shots of a shot map are disjoint and
\* together hold every shot of the set exactly once, in table order, the
\* shots without an outcome included; filtering either part again with its
\* predicate returns it unchanged.
C15_FilterPartition ==
    ShotMap =>
        LET shots == C15_Shots
        IN /\ Len(prog.goal_shots) + Len(prog.non_goal_shots) = Len(shots)
           /\ \A k \in 1..Len(shots) :
                 LET g == C15_GoalsUpTo(shots, k)
                 IN IF shots[k].shot_outcome = "Goal"
                    THEN g <= Len(prog.goal_shots) /\ prog.goal_shots[g] = shots[k]
                    ELSE (k - g) <= Len(prog.non_goal_shots)
                         /\ prog.non_goal_shots[k - g] = shots[k]
           /\ \A i \in 1..Len(prog.goal_shots) :
                 prog.goal_shots[i].shot_outcome = "Goal"
           /\ \A i \in 1..Len(prog.non_goal_shots) :
                 prog.non_goal_shots[i].shot_outcome # "Goal"
           /\ SelectSeq(prog.goal_shots, is_goal_shot) = prog.goal_shots
           /\ SelectSeq(prog.non_goal_shots, is_non_goal_shot) = prog.non_goal_shots

\* a team shot map of a goal, a shot without outcome and a saved shot
C15_Witness ==
    /\ ShotMap
    /\ prog.view = "Team Shot Map"
    /\ Len(prog.goal_shots) = 1
    /\ Len(prog.non_goal_shots) = 2
    /\ \E i \in 1..2 : prog.non_goal_shots[i].shot_outcome = NoOutcome

\* C16: no row of the events table or of the tournament-wide table that
\* the views and report cards are given has a missing position.
C16_PositionNeverMissing ==
    norm.status = "ok" =>
        /\ \A i \in 1..Len(norm.rows) : norm.rows[i].position # NoPosition
        /\ \A i \in 1..Len(norm.full_comp_events) :
              norm.full_comp_events[i].position # NoPosition

---------------------------------------------------------------------------
(* Specification of the report cards: Init draws the tournament's events,  *)
(* the action is one render pass that ends in a report card view.          *)

CardPool ==
    { Plain(1, "A", 1, "Goalkeeper", "Pass"),
      Plain(2, "A", 1, "Goalkeeper", "Pass"),
      Plain(2, "A", 1, "Center Back", "Clearance"),
      Plain(1, "B", 2, "Goalkeeper", "Pass"),
      Plain(1, "B", 2, "Goalkeeper", "Clearance"),
      Shot(1, "A", 3, "Center Forward", Pair(100, 40), "Goal"),
      Shot(2, "A", 3, "Center Forward", Pair(100, 40), "Saved"),
      Plain(2, "C", 4, "Left Wing", "Pass"),
      Plain(1, "B", 5, "goalkeeper", "Pass") }

InitCard ==
    /\ raw \in Tables(CardPool, MaxCardRows)
    /\ report = NotRun
    /\ norm = NotRun
    /\ prog = NotRun
    /\ counts_df = <<>>
    /\ selected_count = 0
    /\ perc = <<>>
    /\ NoRender

\* main, lines 75-150 and 211-270, when no fetch fails
ViewReportCard ==
    /\ report = NotRun
    /\ \E team \in all_teams(EuroMatches), c \in Cards :
       \E selection \in Selections(match_ids_of(EuroMatches, team)) :
          LET match_ids == selected_match_ids(selection, match_ids_of(EuroMatches, team))
              loaded == load_events_body(match_ids)
              full_comp_events == full_normalize(sb_competition_events).rows
          IN IF loaded = <<>>
             THEN report' = [status |-> "error", match_ids |-> match_ids,
                             message |-> "No event data available for the selected match(es)."]
             ELSE report' \in
                    {r @@ [match_ids |-> match_ids] :
                        r \in report_card_view(c, main_prepare(loaded).rows,
                                               full_comp_events)}
    /\ UNCHANGED <<raw, norm, prog, counts_df, selected_count, perc, renderVars>>

NextCard == ViewReportCard

SpecCard == InitCard /\ [][NextCard]_vars

---------------------------------------------------------------------------
(* Claims about the report cards *)

C4_Group(c) ==
    CASE c = "Goalkeeper" -> {"Goalkeeper"}
      [] c = "Defender"   -> defender_positions
      [] c = "Midfielder" -> midfielder_positions
      [] c = "Forward"    -> forward_positions

C4_Matches(r, c, metric) ==
    IF c = "Forward" /\ metric = "Goal"
    THEN r.type = "Shot" /\ r.shot_outcome = "Goal"
    ELSE r.type = metric

\* the events of the tournament table that count for a player and a metric
C4_Own(p, c, metric) ==
    {i \in 1..Len(raw) : raw[i].player = p /\ C4_Matches(raw[i], c, metric)}

C4_InGroup(p, c, metric) ==
    {i \in C4_Own(p, c, metric) : raw[i].position \in C4_Group(c)}

C4_Population(c, metric) ==
    {p \in players_of(raw) : C4_InGroup(p, c, metric) # {}}

\* C4: in every report card row, the count of the selected player is the
\* number of the player's matching events in the tournament-wide table and
\* the percentile ranks it among the per-player counts of the group's
\* matching events in the same tournament-wide table, whatever matches the
\* match-filtered events table holds.
C4_TournamentWideBothSides ==
    report.status = "ok" =>
        \A k \in 1..Len(report.rows) :
            LET row == report.rows[k]
                c == report.card
                pop == C4_Population(c, row.Metric)
                n == Cardinality(pop)
                below == Cardinality({p \in pop :
                            Cardinality(C4_InGroup(p, c, row.Metric)) < row.Count})
                equal == Cardinality({p \in pop :
                            Cardinality(C4_InGroup(p, c, row.Metric)) = row.Count})
            IN /\ row.Count = Cardinality(C4_Own(report.player, c, row.Metric))
               /\ ~row.Percentile.nan
               /\ row.Percentile.num * (2 * Max2(n, 1))
                    = (2 * below + equal) * 100 * row.Percentile.den

\* a goalkeeper card drawn while only match 1 is selected, for a goalkeeper
\* with a pass in match 1 and a pass in match 2: the count is 2
C4_Witness ==
    /\ report.status = "ok"
    /\ report.card = "Goalkeeper"
    /\ report.match_ids = <<1>>
    /\ report.player = 1
    /\ Len(of_type(of_player(load_events_body(<<1>>), 1), "Pass")) = 1
    /\ report.rows[2].Metric = "Pass"
    /\ report.rows[2].Count = 2

\* the players with an event at a position of the card's group among the
\* events of the selected matches
C18_Candidates ==
    LET loaded == load_events_body(report.match_ids)
    IN {loaded[i].player : i \in {j \in 1..Len(loaded) :
                                     loaded[j].position \in C4_Group(report.card)}}
          \ {NoPlayer}

\* C18: the four groups have 1, 5, 12 and 3 positions and share none; main
\* offers the candidates from the same set of positions as the card ranks
\* against; a player is offered, or counted in a population, only for an
\* event whose position is equal to a position of the group.
C18_ExactPositionGroups ==
    /\ Cardinality(goalkeeper_positions) = 1
    /\ Cardinality(defender_positions) = 5
    /\ Cardinality(midfielder_positions) = 12
    /\ Cardinality(forward_positions) = 3
    /\ \A c, d \in Cards : c # d => C4_Group(c) \cap C4_Group(d) = {}
    /\ \A c \in Cards : main_positions(c) = C4_Group(c)
    /\ report.status = "ok" =>
          /\ report.player \in C18_Candidates
          /\ \A k \in 1..Len(report.rows) :
                \A i \in 1..Len(report.rows[k].counts_df) :
                    report.rows[k].counts_df[i].player
                        \in C4_Population(report.card, report.rows[k].Metric)
    /\ (report.status = "error" /\ "card" \in DOMAIN report) => C18_Candidates = {}

\* a goalkeeper card drawn from a tournament in which player 5 passed at the
\* position "goalkeeper": player 5 is not in the population of the passes
C18_Witness ==
    /\ report.status = "ok"
    /\ report.card = "Goalkeeper"
    /\ \E i \in 1..Len(raw) : raw[i].position = "goalkeeper" /\ raw[i].type = "Pass"
    /\ report.rows[2].Metric = "Pass"
    /\ report.rows[2].counts_df # <<>>
    /\ \A i \in 1..Len(report.rows[2].counts_df) :
          report.rows[2].counts_df[i].player # 5

\* the selected player's own entry in the population of a row, 0 without one
C19_OwnEntry(row) ==
    LET own == {i \in 1..Len(row.counts_df) : row.counts_df[i].player = report.player}
    IN IF own = {} THEN 0 ELSE row.counts_df[CHOOSE i \in own : TRUE].count

\* C19: in every row of a report card the selected player's count is at
\* least the player's own entry in the population of the row, and equal to
\* it exactly when each of the player's events of the metric was recorded
\* at a position of the group.
C19_CountAtLeastOwnEntry ==
    report.status = "ok" =>
        \A k \in 1..Len(report.rows) :
            LET row == report.rows[k]
            IN /\ Cardinality({i \in 1..Len(row.counts_df) :
                                  row.counts_df[i].player = report.player}) <= 1
               /\ row.Count >= C19_OwnEntry(row)
               /\ (row.Count = C19_OwnEntry(row)) <=>
                     (C4_Own(report.player, report.card, row.Metric)
                        = C4_InGroup(report.player, report.card, row.Metric))

\* a goalkeeper with a clearance made as centre back and passes made as
\* goalkeeper: one row above the own entry, one row equal to it
C19_Witness ==
    /\ report.status = "ok"
    /\ report.card = "Goalkeeper"
    /\ report.player = 1
    /\ report.rows[5].Metric = "Clearance"
    /\ report.rows[5].Count = 1
    /\ C19_OwnEntry(report.rows[5]) = 0
    /\ report.rows[2].Count = C19_OwnEntry(report.rows[2])
    /\ report.rows[2].Count >= 1

\* C20: every count of a population is at least 1; a player of the group
\* without an event of the metric has no entry; and a selected count of 0
\* against a non-empty population gives the percentile 0.
C20_PopulationCountsPositive ==
    report.status = "ok" =>
        \A k \in 1..Len(report.rows) :
            LET row == report.rows[k]
            IN /\ \A i \in 1..Len(row.counts_df) :
                    /\ row.counts_df[i].count >= 1
                    /\ row.counts_df[i].count =
                          Cardinality(C4_InGroup(row.counts_df[i].player,
                                                 report.card, row.Metric))
               /\ (row.Count = 0 /\ row.counts_df # <<>>) =>
                     (~row.Percentile.nan /\ row.Percentile.num = 0)

\* the card of a goalkeeper without a pass, in a tournament in which another
\* goalkeeper passed
C20_Witness ==
    /\ report.status = "ok"
    /\ report.card = "Goalkeeper"
    /\ report.rows[2].Metric = "Pass"
    /\ report.rows[2].Count = 0
    /\ report.rows[2].counts_df # <<>>
    /\ report.rows[2].Percentile.num = 0

---------------------------------------------------------------------------
(* Specification of the dashboard: a process serves render passes, each    *)
(* one run of main from the cached loads to the selected view.             *)

MainPool ==
    { Plain(1, "A", 1, "Goalkeeper", "Pass"),
      PassTo(2, "A", 2, 3, Pair(70, 40), Pair(85, 40)) }

Init ==
    /\ raw \in {<<>>} \cup Tables(MainPool, MaxMainRows)
    /\ sb_matches \in {EuroMatches, <<>>}
    /\ FreshProcess
    /\ counts_df = <<>>
    /\ selected_count = 0
    /\ perc = <<>>
    /\ norm = NotRun
    /\ prog = NotRun
    /\ report = NotRun

pureVars == <<counts_df, selected_count, perc, raw, norm, prog, report, sb_matches>>

Exception(step) == [status |-> "exception", step |-> step]

\* a user interaction starts a pass; lines 75-78 of main
LoadTournament ==
    /\ pc = "idle"
    /\ passes < MaxPasses
    /\ passes' = passes + 1
    /\ \E fail \in {"none", "load_competitions", "load_matches",
                    "load_full_competition_events"} :
          LET r == load_all(TournamentLoaders, cache, fail)
          IN /\ fail # "none" => ~r.ok
             /\ cache' = r.store
             /\ hist' = [hist EXCEPT !.failed =
                            (@ \ {<<fn, <<>>>> : fn \in r.ran})
                            \cup (IF r.ok THEN {} ELSE {<<r.raised, <<>>>>})]
             /\ IF r.ok
                THEN /\ pc' = "sidebar"
                     /\ out' = NotRun
                     /\ locals' = [team |-> "None",
                                   matches |-> r.returned["load_matches"],
                                   full_comp_events |->
                                       r.returned["load_full_competition_events"]]
                ELSE /\ pc' = "idle"
                     /\ out' = Exception(r.raised)
                     /\ locals' = NoLocals
    /\ UNCHANGED <<pureVars, last_load, next_id>>

\* the sidebar without the check of lines 90-92: the pass goes on to the
\* events load whatever the team's match list holds
Sidebar_unchecked ==
    /\ pc = "sidebar"
    /\ \E team \in (IF all_teams(locals.matches) = {} THEN {"None"}
                     ELSE all_teams(locals.matches)), viz_option \in VizOptions :
       \E selection \in Selections(match_ids_of(locals.matches, team)) :
          /\ locals' = [locals EXCEPT !.team = team] @@
                       [match_ids |-> selected_match_ids(selection,
                                          match_ids_of(locals.matches, team)),
                        viz_option |-> viz_option]
          /\ pc' = "events"
          /\ out' = out
    /\ UNCHANGED <<pureVars, cache, last_load, hist, next_id, passes>>

\* lines 80-129 of main: the team, the matches and the visualisation
Sidebar ==
    /\ pc = "sidebar"
    /\ IF all_teams(locals.matches) = {}
       THEN /\ out' = [status |-> "error",
                       message |-> "No matches found for the selected team."]
            /\ pc' = "idle"
            /\ locals' = NoLocals
       ELSE \E team \in all_teams(locals.matches), viz_option \in VizOptions :
            \E selection \in Selections(match_ids_of(locals.matches, team)) :
               /\ locals' = [locals EXCEPT !.team = team] @@
                            [match_ids |-> selected_match_ids(selection,
                                               match_ids_of(locals.matches, team)),
                             viz_option |-> viz_option]
               /\ pc' = "events"
               /\ out' = out
    /\ UNCHANGED <<pureVars, cache, last_load, hist, next_id, passes>>

\* lines 131-135 of main: load_events_for_matches(tuple(selected_match_ids)).
\* st.cache_data hands main a new table object on every call: the body's
\* return value on a miss, a copy of the memoized value on a hit.
LoadEvents ==
    /\ pc = "events"
    /\ \E fail_at \in 0..Len(locals.match_ids) :
          LET ids == locals.match_ids
              body == events_body(ids, fail_at)
              res == st_cache_data(cache, events_key(ids), body)
              call == <<"load_events_for_matches", ids>>
          IN /\ res.hit => fail_at = 0
             /\ cache' = res.store
             /\ last_load' = [status |-> "done", match_ids |-> ids,
                              hit |-> res.hit, ok |-> res.ok,
                              fetched |-> IF res.hit THEN <<>> ELSE body.fetched,
                              id |-> next_id, rows |-> res.rows]
             /\ hist' = IF res.hit THEN hist
                        ELSE [runs |-> bump(hist.runs, ids),
                              done |-> IF res.ok THEN bump(hist.done, ids)
                                       ELSE hist.done,
                              first |-> IF res.ok /\ ids \notin DOMAIN hist.first
                                        THEN (ids :> [id |-> next_id, rows |-> res.rows])
                                             @@ hist.first
                                        ELSE hist.first,
                              failed |-> IF res.ok THEN hist.failed \ {call}
                                         ELSE hist.failed \cup {call}]
             /\ next_id' = IF res.ok THEN next_id + 1 ELSE next_id
             /\ IF ~res.ok
                THEN /\ pc' = "idle"
                     /\ locals' = NoLocals
                     /\ out' = Exception("load_events_for_matches")
                ELSE IF res.rows = <<>>
                THEN /\ pc' = "idle"
                     /\ locals' = NoLocals
                     /\ out' = [status |-> "error",
                                message |-> "No event data available for the selected match(es)."]
                ELSE /\ pc' = "normalize"
                     /\ locals' = locals @@ [events |-> [id |-> next_id, rows |-> res.rows]]
                     /\ out' = out
    /\ UNCHANGED <<pureVars, passes>>

\* lines 137-150 of main: the coordinate columns and, if missing, the
\* position column are added to events in place
Normalize ==
    /\ pc = "normalize"
    /\ LET n == main_prepare(locals.events.rows)
       IN IF n.status = "ok"
          THEN /\ locals' = [locals EXCEPT !.events.rows = n.rows]
               /\ pc' = "dispatch"
               /\ out' = out
          ELSE /\ locals' = NoLocals
               /\ pc' = "idle"
               /\ out' = Exception("ValueError")
    /\ UNCHANGED <<pureVars, cache, last_load, hist, next_id, passes>>

\* lines 152-282 of main: the selected visualisation
Dispatch ==
    /\ pc = "dispatch"
    /\ out' \in dispatch(locals.viz_option, locals.events.rows, locals.team,
                         locals.full_comp_events)
    /\ pc' = "idle"
    /\ locals' = NoLocals
    /\ UNCHANGED <<pureVars, cache, last_load, hist, next_id, passes>>

Next ==
    \/ LoadTournament
    \/ Sidebar
    \/ LoadEvents
    \/ Normalize
    \/ Dispatch

Spec == Init /\ [][Next]_vars

---------------------------------------------------------------------------
(* Claims about the cached events load *)

AllMatchIds == {EuroMatches[i].match_id : i \in 1..Len(EuroMatches)}

Elems(seq) == {seq[i] : i \in 1..Len(seq)}

Loaded == last_load.status = "done" /\ last_load.ok

C9_ExactlyKeyMatches ==
    Loaded =>
        /\ \A m \in AllMatchIds :
              SelectSeq(last_load.rows, LAMBDA e : e.match_id = m)
                  = IF m \in Elems(last_load.match_ids) THEN sb_events(m) ELSE <<>>
        /\ \A i \in 1..Len(last_load.rows) :
              last_load.rows[i].match_id \in Elems(last_load.match_ids)
        /\ last_load.hit => last_load.match_ids \in DOMAIN hist.first
        /\ ~last_load.hit => last_load.fetched = last_load.match_ids

C9_Witness ==
    /\ Loaded
    /\ ~last_load.hit
    /\ last_load.match_ids = <<2>>
    /\ last_load.fetched = <<2>>
    /\ last_load.rows # <<>>
    /\ <<1, 2>> \in DOMAIN hist.first
    /\ hist.first[<<1, 2>>].rows # last_load.rows

\* C10: a cached call whose latest body run raised has nothing memoized
\* under its key, and the next load with that key runs the upstream fetch
\* again, from the first match of the key.
C10_FailureNotMemoized ==
    /\ [](\A call \in hist.failed : call \notin DOMAIN cache)
    /\ [][(/\ pc = "events"
           /\ <<"load_events_for_matches", locals.match_ids>> \in hist.failed)
          => (/\ ~last_load'.hit
              /\ last_load'.fetched # <<>>
              /\ last_load'.fetched[1] = locals.match_ids[1])]_vars

C10_Witness ==
    /\ Loaded
    /\ ~last_load.hit
    /\ last_load.match_ids = <<1, 2>>
    /\ last_load.fetched = <<1, 2>>
    /\ hist.runs[<<1, 2>>] = 2
    /\ hist.done[<<1, 2>>] = 1
    /\ hist.failed = {}

---------------------------------------------------------------------------
(* Claims about the views of a render pass *)

\* C11: a view that was drawn was drawn from a non-empty filtered set (an
\* empty set ends the pass with an error message instead): the progression
\* chart from at least one progression event, the passing network from at
\* least one completed pass of the team, a shot map from at least one shot.
C11_EmptySelectionSignalled ==
    (out.status = "ok" /\ "view" \in DOMAIN out) =>
          /\ out.view \in {"bar", "map"} =>
                (out.pass_events # <<>> \/ out.carry_events # <<>>)
          /\ out.view = "Team Passing Network" => out.completed_passes # <<>>
          /\ out.view \in {"Team Shot Map", "Player Shot Map"} =>
                (out.goal_shots # <<>> \/ out.non_goal_shots # <<>>)

---------------------------------------------------------------------------
(* Claims about the order of the steps of a render pass *)

CoordinateColumns ==
    {"x", "y", "pass_end_x", "pass_end_y", "carry_end_x", "carry_end_y"}

\* the events table of the pass is the loaded table, found non-empty, with
\* the coordinate columns and the position column of main's normalisation
C22_Normalized ==
    /\ last_load.status = "done" /\ last_load.ok
    /\ last_load.match_ids = locals.match_ids
    /\ last_load.rows # <<>>
    /\ locals.events.rows = main_prepare(last_load.rows).rows
    /\ \A i \in 1..Len(locals.events.rows) :
          CoordinateColumns \subseteq DOMAIN locals.events.rows[i]
    /\ has_position_column(locals.events.rows)

\* the team of the pass has a non-empty match list, and the matches of the
\* pass are among them
C22_TeamHasMatches ==
    /\ match_ids_of(locals.matches, locals.team) # <<>>
    /\ locals.match_ids # <<>>
    /\ Elems(locals.match_ids) \subseteq Elems(match_ids_of(locals.matches, locals.team))

C22_Error(message) ==
    /\ pc' = "idle"
    /\ out'.status = "error"
    /\ out'.message = message

\* C22: in every render pass the steps occur in the order load, team-match
\* check, events load, normalisation, view dispatch.  The one view of a pass
\* runs only after the team's match list was found non-empty, the loaded
\* events table was found non-empty and the coordinate and position
\* normalisation was applied to it, and running it ends the pass; a pass
\* whose team has no match, or whose loaded events table is empty, reports
\* the error and ends with no view run.
C22_RenderStepOrder ==
    /\ [](pc \in {"events", "normalize", "dispatch"} => C22_TeamHasMatches)
    /\ [](pc = "dispatch" => C22_Normalized)
    /\ [][/\ pc' = "sidebar" => (pc = "idle" /\ passes' = passes + 1)
          /\ pc' = "events" => pc = "sidebar"
          /\ pc' = "normalize" => pc = "events"
          /\ pc' = "dispatch" => pc = "normalize"
          /\ (out'.status = "ok" /\ out' # out) => pc = "dispatch"
          /\ pc = "dispatch" => pc' = "idle"]_vars
    /\ [][/\ (pc = "sidebar" /\ \A team \in all_teams(locals.matches) \cup {"None"} :
                                   match_ids_of(locals.matches, team) = <<>>)
              => C22_Error("No matches found for the selected team.")
          /\ (pc = "events" /\ last_load'.ok /\ last_load'.rows = <<>>)
              => C22_Error("No event data available for the selected match(es).")]_vars

\* a second pass of the process has run its view after every step
C22_Witness ==
    /\ passes = 2
    /\ pc = "idle"
    /\ out.status = "ok"
    /\ "view" \in DOMAIN out
    /\ last_load.status = "done" /\ last_load.ok /\ last_load.rows # <<>>

=============================================================================
